---- MODULE Spec2Model ----
(***************************************************************************)
(* Model of backend/app.py: the POST /api/login handler `login`, its       *)
(* MySQL `users` table, and the framework's treatment of an exception the  *)
(* handler does not catch.  Each invocation of login is a process whose    *)
(* position (pc) is the source line it is about to run.                    *)
(***************************************************************************)
EXTENDS Integers, FiniteSets, Sequences, TLC

\* ------------------------------------------------------------------ bounds
\* Number of login invocations in flight (interleaved in any order).
MaxInvocations == 2

Invocations == 1..MaxInvocations

\* ------------------------------------------------------ the users table
\* A row of `SELECT * FROM users`: <<id, username, password, role,
\* assignedCity>>.  Python's user[k] is row[k+1] here.
Alice == <<1, "alice", "secret", "admin", "Lisbon">>
Bob == <<2, "bob", "hunter", "user", "Porto">>
AliceTwin == <<3, "alice", "secret", "user", "Porto">>
AliceOther == <<4, "alice", "hunter", "user", "Faro">>

\* Table contents the handler may run against: usernames unique; two rows
\* with the same (username, password) pair; two rows sharing a username
\* but not a password.
Tables == { {Alice, Bob}, {Alice, Bob, AliceTwin}, {Alice, Bob, AliceOther} }

\* ------------------------------------------------------- request bodies
Keys == {"username", "password"}
Usernames == {"alice", "bob", "carol"}
Passwords == {"secret", "hunter"}

\* request.json: a JSON object holding any subset of the two keys.
Bodies ==
  { b \in UNION { [S -> Usernames \cup Passwords] : S \in SUBSET Keys } :
      /\ ("username" \in DOMAIN b => b["username"] \in Usernames)
      /\ ("password" \in DOMAIN b => b["password"] \in Passwords) }

EmptyJson == [k \in {} |-> ""]

\* None / no exception in flight.
None == <<>>

MYSQL_HOST == "localhost"

\* ------------------------------------------------------- pure operators
\* The WHERE clause of the query: username = %s AND password = %s.
MatchingByUsername(table, u, p) == { r \in table : r[2] = u }
MatchingEither(table, u, p) == { r \in table : r[2] = u \/ r[3] = p }
Matching(table, u, p) == { r \in table : r[2] = u /\ r[3] = p }

\* The dict handed to jsonify on the 200 path.
ProjectSwapped(row) ==
  [id |-> row[1], username |-> row[2], role |-> row[5], assignedCity |-> row[4]]
ProjectShifted(row) ==
  [id |-> row[1], username |-> row[2], role |-> row[3], assignedCity |-> row[4]]
Project(row) ==
  [id |-> row[1], username |-> row[2], role |-> row[4], assignedCity |-> row[5]]

\* Exceptions the handler can raise and does not catch.
ConnectError == <<"OperationalError", MYSQL_HOST>>
QueryError == <<"OperationalError", "Lost connection to MySQL server during query">>
KeyError(k) == <<"KeyError", k>>

\* The response the framework builds for an uncaught exception: status 500;
\* with debug on, the body carries the traceback with the exception text.
ErrorBody(dbg, e) ==
  IF dbg THEN [error |-> "Internal Server Error", traceback |-> e]
         ELSE [error |-> "Internal Server Error"]

\* ------------------------------------------------------------- state
VARIABLES users, debug, pc, creds, cur, rows, user, queries, exc, status, body

vars == <<users, debug, pc, creds, cur, rows, user, queries, exc, status, body>>

Init ==
  /\ users \in Tables
  /\ debug \in BOOLEAN
  /\ pc = [i \in Invocations |-> "l23"]
  /\ creds = [i \in Invocations |-> EmptyJson]
  /\ cur = [i \in Invocations |-> "none"]
  /\ rows = [i \in Invocations |-> {}]
  /\ user = [i \in Invocations |-> None]
  /\ queries = [i \in Invocations |-> 0]
  /\ exc = [i \in Invocations |-> None]
  /\ status = [i \in Invocations |-> 0]
  /\ body = [i \in Invocations |-> EmptyJson]

\* An exception e leaves the handler: the framework answers 500.
Raise(i, e) ==
  /\ exc' = [exc EXCEPT ![i] = e]
  /\ status' = [status EXCEPT ![i] = 500]
  /\ body' = [body EXCEPT ![i] = ErrorBody(debug, e)]
  /\ pc' = [pc EXCEPT ![i] = "done"]

\* line 23: creds = request.json
Receive(i) ==
  /\ pc[i] = "l23"
  /\ \E b \in Bodies : creds' = [creds EXCEPT ![i] = b]
  /\ pc' = [pc EXCEPT ![i] = "l24"]
  /\ UNCHANGED <<users, debug, cur, rows, user, queries, exc, status, body>>

\* line 24: cur = mysql.connection.cursor()
Connect(i) ==
  /\ pc[i] = "l24"
  /\ \/ /\ cur' = [cur EXCEPT ![i] = "open"]
        /\ pc' = [pc EXCEPT ![i] = "l25"]
        /\ UNCHANGED <<exc, status, body>>
     \/ /\ Raise(i, ConnectError)
        /\ UNCHANGED cur
  /\ UNCHANGED <<users, debug, creds, rows, user, queries>>

\* lines 25-26: cur.execute(SELECT ..., (creds['username'], creds['password']))
\* The argument tuple is evaluated first, username before password.
ExecuteDeleting(i) ==
  /\ pc[i] = "l25"
  /\ IF "username" \notin DOMAIN creds[i]
       THEN Raise(i, KeyError("username")) /\ UNCHANGED <<rows, queries, users>>
     ELSE IF "password" \notin DOMAIN creds[i]
       THEN Raise(i, KeyError("password")) /\ UNCHANGED <<rows, queries, users>>
     ELSE
       /\ queries' = [queries EXCEPT ![i] = @ + 1]
       /\ \/ /\ rows' = [rows EXCEPT ![i] =
                           Matching(users, creds[i]["username"], creds[i]["password"])]
             /\ users' = users \ Matching(users, creds[i]["username"], creds[i]["password"])
             /\ pc' = [pc EXCEPT ![i] = "l27"]
             /\ UNCHANGED <<exc, status, body>>
          \/ /\ Raise(i, QueryError)
             /\ UNCHANGED <<rows, users>>
  /\ UNCHANGED <<debug, creds, cur, user>>

Execute(i) ==
  /\ pc[i] = "l25"
  /\ IF "username" \notin DOMAIN creds[i]
       THEN Raise(i, KeyError("username")) /\ UNCHANGED <<rows, queries>>
     ELSE IF "password" \notin DOMAIN creds[i]
       THEN Raise(i, KeyError("password")) /\ UNCHANGED <<rows, queries>>
     ELSE
       /\ queries' = [queries EXCEPT ![i] = @ + 1]
       /\ \/ /\ rows' = [rows EXCEPT ![i] =
                           Matching(users, creds[i]["username"], creds[i]["password"])]
             /\ pc' = [pc EXCEPT ![i] = "l27"]
             /\ UNCHANGED <<exc, status, body>>
          \/ /\ Raise(i, QueryError)
             /\ UNCHANGED rows
  /\ UNCHANGED <<users, debug, creds, cur, user>>

\* line 27: user = cur.fetchone()  -- the first row of the result set, in
\* whatever order the store returns rows (the query has no ORDER BY).
FetchShared(i) ==
  /\ pc[i] = "l27"
  /\ \E j \in Invocations :
       \/ /\ rows[j] = {}
          /\ user' = [user EXCEPT ![i] = None]
       \/ \E r \in rows[j] : user' = [user EXCEPT ![i] = r]
  /\ pc' = [pc EXCEPT ![i] = "l28"]
  /\ UNCHANGED <<users, debug, creds, cur, rows, queries, exc, status, body>>

Fetch(i) ==
  /\ pc[i] = "l27"
  /\ \/ /\ rows[i] = {}
        /\ user' = [user EXCEPT ![i] = None]
     \/ \E r \in rows[i] : user' = [user EXCEPT ![i] = r]
  /\ pc' = [pc EXCEPT ![i] = "l28"]
  /\ UNCHANGED <<users, debug, creds, cur, rows, queries, exc, status, body>>

\* line 28: cur.close()
Close(i) ==
  /\ pc[i] = "l28"
  /\ cur' = [cur EXCEPT ![i] = "closed"]
  /\ pc' = [pc EXCEPT ![i] = "l30"]
  /\ UNCHANGED <<users, debug, creds, rows, user, queries, exc, status, body>>

\* lines 30-37: if user: return jsonify({...}), 200 / return jsonify({}), 401
RespondNotFound(i) ==
  /\ pc[i] = "l30"
  /\ IF user[i] # None
       THEN /\ status' = [status EXCEPT ![i] = 200]
            /\ body' = [body EXCEPT ![i] = Project(user[i])]
       ELSE /\ status' = [status EXCEPT ![i] = 404]
            /\ body' = [body EXCEPT ![i] = [error |-> "not found"]]
  /\ pc' = [pc EXCEPT ![i] = "done"]
  /\ UNCHANGED <<users, debug, creds, cur, rows, user, queries, exc>>

Respond(i) ==
  /\ pc[i] = "l30"
  /\ IF user[i] # None
       THEN /\ status' = [status EXCEPT ![i] = 200]
            /\ body' = [body EXCEPT ![i] = Project(user[i])]
       ELSE /\ status' = [status EXCEPT ![i] = 401]
            /\ body' = [body EXCEPT ![i] = EmptyJson]
  /\ pc' = [pc EXCEPT ![i] = "done"]
  /\ UNCHANGED <<users, debug, creds, cur, rows, user, queries, exc>>

Next ==
  \E i \in Invocations :
    \/ Receive(i)
    \/ Connect(i)
    \/ Execute(i)
    \/ Fetch(i)
    \/ Close(i)
    \/ Respond(i)

Spec == Init /\ [][Next]_vars

\* ------------------------------------------------------------ properties
ProfileFields == {"id", "username", "role", "assignedCity"}

Done(i) == pc[i] = "done"

\* The invocation sent both fields and no exception left the handler.
Answered(i) == Done(i) /\ exc[i] = None /\ DOMAIN creds[i] = Keys

\* Records whose username and password both equal the supplied values.
Holders(i) ==
  { r \in users : r[2] = creds[i]["username"] /\ r[3] = creds[i]["password"] }

\* Body b is the public profile of record r.
BodyIs(b, r) ==
  /\ DOMAIN b = ProfileFields
  /\ b["id"] = r[1]
  /\ b["username"] = r[2]
  /\ b["role"] = r[4]
  /\ b["assignedCity"] = r[5]

\* C1: when the store holds a record with the supplied username and
\* password (and the store answered), login returns 200 and the body is
\* exactly {id, username, role, assignedCity} of such a record -- of that
\* record when it is the only one.
C1_SuccessProfile ==
  \A i \in Invocations :
    (Answered(i) /\ Holders(i) # {}) =>
      /\ status[i] = 200
      /\ \E r \in Holders(i) : BodyIs(body[i], r)

C1_Witness ==
  \E i \in Invocations :
    /\ Done(i) /\ status[i] = 200
    /\ users = {Alice, Bob}
    /\ DOMAIN creds[i] = Keys
    /\ creds[i]["username"] = "alice" /\ creds[i]["password"] = "secret"
    /\ body[i]["id"] = 1 /\ body[i]["role"] = "admin"
    /\ body[i]["assignedCity"] = "Lisbon"

\* C2: both fields present and no stored record has that username and that
\* password (and the store answered): login returns 401 with an empty JSON
\* object.
C2_FailureEmpty ==
  \A i \in Invocations :
    (Answered(i) /\ Holders(i) = {}) =>
      /\ status[i] = 401
      /\ DOMAIN body[i] = {}

C2_Witness ==
  \E i, j \in Invocations :
    /\ Done(i) /\ Done(j)
    /\ status[i] = 401 /\ status[j] = 401
    /\ creds[i]["username"] = "bob" /\ creds[i]["password"] = "secret"
    /\ creds[j]["username"] = "carol"

\* C3: every 200 body is the profile of a record whose username and password
\* both equal the supplied values, and is not the profile of any record that
\* differs from them in username or password.
C3_NoCrossAccount ==
  \A i \in Invocations :
    (Done(i) /\ status[i] = 200) =>
      /\ DOMAIN creds[i] = Keys
      /\ \E r \in Holders(i) : BodyIs(body[i], r)
      /\ \A b \in users \ Holders(i) :
           body[i]["id"] # b[1] /\ ~BodyIs(body[i], b)

C3_Witness ==
  \E i, j \in Invocations :
    /\ status[i] = 200 /\ status[j] = 200
    /\ creds[i]["username"] = "alice" /\ body[i]["username"] = "alice"
    /\ creds[j]["username"] = "bob" /\ body[j]["id"] = 2

\* C4: a request lacking the username or the password field ends with 400.
C4_MissingFieldBadRequest ==
  \A i \in Invocations :
    (Done(i) /\ DOMAIN creds[i] # Keys) => status[i] = 400

\* C5: a request during which the store fails ends with 500 and a body that
\* carries no detail of the store connection.
C5_StoreFailureGeneric ==
  \A i \in Invocations :
    (Done(i) /\ exc[i] \in {ConnectError, QueryError}) =>
      /\ status[i] = 500
      /\ "traceback" \notin DOMAIN body[i]

\* C6: no terminated invocation leaves its cursor open.
C6_CursorReleased ==
  \A i \in Invocations : Done(i) => cur[i] # "open"

\* C7: no step of any login invocation changes the users table.
C7_ReadOnly == [][users' = users]_vars

C7_Witness ==
  \E i, j \in Invocations :
    /\ Done(i) /\ Done(j)
    /\ status[i] = 200 /\ queries[i] = 1
    /\ status[j] = 500
    /\ users = {Alice, Bob, AliceTwin}

\* The results login can yield for request body c when it runs alone.
AloneResults(c) ==
  LET found == IF DOMAIN c = Keys
                 THEN { r \in users : r[2] = c["username"] /\ r[3] = c["password"] }
                 ELSE {}
      fault(e) == <<500, IF debug THEN [error |-> "Internal Server Error", traceback |-> e]
                                  ELSE [error |-> "Internal Server Error"]>>
  IN  {fault(<<"OperationalError", MYSQL_HOST>>)} \cup
      (IF "username" \notin DOMAIN c THEN {fault(<<"KeyError", "username">>)}
       ELSE IF "password" \notin DOMAIN c THEN {fault(<<"KeyError", "password">>)}
       ELSE {fault(<<"OperationalError", "Lost connection to MySQL server during query">>)} \cup
            (IF found = {} THEN {<<401, EmptyJson>>}
             ELSE { <<200, [id |-> r[1], username |-> r[2], role |-> r[4],
                           assignedCity |-> r[5]]>> : r \in found }))

\* C8: under any interleaving each invocation issues at most one query,
\* exactly one when it ends with 200 or 401, and its result is one it yields
\* when run alone against the same table.
C8_Isolated ==
  \A i \in Invocations :
    /\ queries[i] <= 1
    /\ (status[i] \in {200, 401} => queries[i] = 1)
    /\ (Done(i) => <<status[i], body[i]>> \in AloneResults(creds[i]))

C8_Witness ==
  \E i, j \in Invocations :
    /\ i # j
    /\ Done(i) /\ status[i] = 200 /\ queries[i] = 1
    /\ pc[j] = "l28" /\ cur[j] = "open" /\ queries[j] = 1 /\ user[j] = None

\* The strings a response body carries.
StringsOf(b) ==
  { b[k] : k \in DOMAIN b \cap {"username", "role", "assignedCity", "error"} }
    \cup (IF "traceback" \in DOMAIN b
            THEN { b["traceback"][n] : n \in DOMAIN b["traceback"] }
            ELSE {})

\* C9: the 200 body takes id, username, role, assignedCity from row
\* positions 0, 1, 3, 4 of the fetched row, and no response on any path
\* carries the stored password of a record.
C9_NoPassword ==
  \A i \in Invocations :
    Done(i) =>
      /\ status[i] = 200 =>
           /\ DOMAIN body[i] = ProfileFields
           /\ body[i]["id"] = user[i][1]
           /\ body[i]["username"] = user[i][2]
           /\ body[i]["role"] = user[i][4]
           /\ body[i]["assignedCity"] = user[i][5]
      /\ \A r \in users : r[3] \notin StringsOf(body[i])

C9_Witness ==
  \E i \in Invocations :
    /\ Done(i) /\ status[i] = 200
    /\ user[i][3] = "hunter"
    /\ body[i]["role"] = "user"
    /\ "hunter" \notin StringsOf(body[i])

\* No two records share both username and password.
NoDuplicatePairs ==
  \A r, s \in users : (r[2] = s[2] /\ r[3] = s[3]) => r = s

UniqueUsernames ==
  \A r, s \in users : r[2] = s[2] => r = s

\* C10: two answered runs with the same username and password return the
\* same status, and the same body unless the table holds two records with
\* that same (username, password) pair.
C10_Deterministic ==
  \A i, j \in Invocations :
    (Answered(i) /\ Answered(j) /\ creds[i] = creds[j]) =>
      /\ status[i] = status[j]
      /\ (NoDuplicatePairs => body[i] = body[j])

C10_Witness ==
  \E i, j \in Invocations :
    /\ i # j
    /\ Answered(i) /\ Answered(j) /\ creds[i] = creds[j]
    /\ UniqueUsernames
    /\ status[i] = 200 /\ body[i] = body[j]

====
